---- MODULE Spec2Model ----
(***************************************************************************)
(* Model of insert-bfactor.py: a command line driver that loads a table of *)
(* b-factor values keyed by chain id and sequence id, rewrites the fixed   *)
(* column value field of the ATOM and HETATM lines of a PDB file, and      *)
(* writes the result to an output file.                                    *)
(*                                                                         *)
(* Text is a sequence of one-character strings.  A float is a record       *)
(* [nan, neg, num, scale] standing for (-1)^neg * num / 10^scale, or NaN.  *)
(***************************************************************************)
EXTENDS Integers, Sequences, FiniteSets, TLC

\* ------------------------------------------------------------------------
\* Bounds of the explored inputs.
MaxBLines == 2
MaxPdbLines == 1

\* ------------------------------------------------------------------------
\* Column offsets and format parameters used by insert_bfac_into_pdb.
RecLen == 6
ChainStart == 20
ChainEnd == 22
SeqStart == 23
SeqEnd == 26
BfacStart == 60
BfacEnd == 66
FmtWidth == 6
FmtPrec == 2

\* ------------------------------------------------------------------------
\* Python built-ins on text.

Min(a, b) == IF a < b THEN a ELSE b

\* s[a:b] for 0 <= a, 0 <= b: the indices are clamped to the length.
Slice(s, a, b) ==
    IF a >= Min(b, Len(s)) THEN <<>> ELSE SubSeq(s, a + 1, Min(b, Len(s)))

\* s[a:]
SliceFrom(s, a) == Slice(s, a, Len(s))

\* s[:b]
SliceTo(s, b) == Slice(s, 0, b)

Whitespace == {" ", "\t", "\n", "\r"}

RECURSIVE rstrip(_)
rstrip(s) ==
    IF s = <<>> THEN s
    ELSE IF s[Len(s)] \in Whitespace THEN rstrip(SubSeq(s, 1, Len(s) - 1))
    ELSE s

RECURSIVE lstrip(_)
lstrip(s) ==
    IF s = <<>> THEN s
    ELSE IF s[1] \in Whitespace THEN lstrip(Tail(s))
    ELSE s

strip(s) == lstrip(rstrip(s))

RECURSIVE splitRec(_, _, _, _)
splitRec(s, i, cur, acc) ==
    IF i > Len(s)
    THEN IF cur = <<>> THEN acc ELSE Append(acc, cur)
    ELSE IF s[i] \in Whitespace
         THEN splitRec(s, i + 1, <<>>, IF cur = <<>> THEN acc ELSE Append(acc, cur))
         ELSE splitRec(s, i + 1, Append(cur, s[i]), acc)

\* str.split() with no separator: the maximal runs of non-whitespace.
split(s) == splitRec(s, 1, <<>>, <<>>)

RECURSIVE join(_)
\* "".join(lines)
join(lines) == IF lines = <<>> THEN <<>> ELSE Head(lines) \o join(Tail(lines))

\* ------------------------------------------------------------------------
\* Floats: float(token) and the format specification 6.2f.

Digits == {"0", "1", "2", "3", "4", "5", "6", "7", "8", "9"}

DigitVal(c) == CHOOSE d \in 0..9 : <<"0", "1", "2", "3", "4", "5", "6", "7", "8", "9">>[d + 1] = c

DigitChar(d) == <<"0", "1", "2", "3", "4", "5", "6", "7", "8", "9">>[d + 1]

RECURSIVE Pow10(_)
Pow10(k) == IF k = 0 THEN 1 ELSE 10 * Pow10(k - 1)

NaN == [nan |-> TRUE, neg |-> FALSE, num |-> 0, scale |-> 0]

Num(neg, num, scale) == [nan |-> FALSE, neg |-> neg, num |-> num, scale |-> scale]

IsNanToken(t) ==
    /\ Len(t) = 3
    /\ t[1] \in {"n", "N"}
    /\ t[2] \in {"a", "A"}
    /\ t[3] \in {"n", "N"}

RECURSIVE DigitsVal(_, _)
\* The number written by a run of decimal digits, most significant first.
DigitsVal(s, acc) ==
    IF s = <<>> THEN acc ELSE DigitsVal(Tail(s), 10 * acc + DigitVal(Head(s)))

\* The position of the first "." of s, or 0.
DotPos(s) ==
    IF \E i \in 1..Len(s) : s[i] = "."
    THEN CHOOSE i \in 1..Len(s) : s[i] = "." /\ \A j \in 1..(i - 1) : s[j] # "."
    ELSE 0

\* float(t) for tokens over signs, digits, "." and letters: an optional sign,
\* then digits with at most one ".", at least one digit in all; or nan.
\* ok = FALSE stands for ValueError.  (Exponents, inf and underscores, which
\* float() also accepts, are outside the token alphabet of the inputs.)
ParseFloat(t) ==
    LET signed == t # <<>> /\ t[1] \in {"+", "-"}
        neg == t # <<>> /\ t[1] = "-"
        body == IF signed THEN Tail(t) ELSE t
        dot == DotPos(body)
        ip == IF dot = 0 THEN body ELSE SubSeq(body, 1, dot - 1)
        fp == IF dot = 0 THEN <<>> ELSE SubSeq(body, dot + 1, Len(body))
        wellFormed == /\ \A i \in 1..Len(ip) : ip[i] \in Digits
                      /\ \A i \in 1..Len(fp) : fp[i] \in Digits
                      /\ Len(ip) + Len(fp) > 0
    IN  IF IsNanToken(body) THEN [ok |-> TRUE, val |-> NaN]
        ELSE IF wellFormed
             THEN [ok |-> TRUE, val |-> Num(neg, DigitsVal(ip \o fp, 0), Len(fp))]
             ELSE [ok |-> FALSE, val |-> NaN]

RECURSIVE IntDigits(_)
\* The decimal digits of n >= 0.
IntDigits(n) ==
    IF n < 10 THEN <<DigitChar(n)>> ELSE Append(IntDigits(n \div 10), DigitChar(n % 10))

\* v rounded to prec decimals, as an integer count of 10^-prec, ties to even.
\* (The tie rule is that of the binary value; the ties among the inputs are
\* dyadic fractions, whose binary value is the decimal one.)
RoundTo(v, prec) ==
    IF v.scale <= prec THEN v.num * Pow10(prec - v.scale)
    ELSE LET d == Pow10(v.scale - prec)
             q == v.num \div d
             r == v.num % d
         IN  IF 2 * r > d \/ (2 * r = d /\ q % 2 = 1) THEN q + 1 ELSE q

RECURSIVE PadLeft(_, _)
\* Right-justify: pad with spaces up to the width, never truncate.
PadLeft(s, width) == IF Len(s) >= width THEN s ELSE PadLeft(<<" ">> \o s, width)

RECURSIVE ZeroFill(_, _)
ZeroFill(s, width) == IF Len(s) >= width THEN s ELSE ZeroFill(<<"0">> \o s, width)

\* "{bfac:6.2f}".format(bfac=v)
FormatBfac(v) ==
    IF v.nan THEN PadLeft(<<"n", "a", "n">>, FmtWidth)
    ELSE LET h == RoundTo(v, FmtPrec)
             p == Pow10(FmtPrec)
             text == (IF v.neg THEN <<"-">> ELSE <<>>)
                     \o IntDigits(h \div p) \o <<".">>
                     \o ZeroFill(IntDigits(h % p), FmtPrec)
         IN  PadLeft(text, FmtWidth)

\* ------------------------------------------------------------------------
\* Dictionaries are functions; a key is present when it is in the domain.

EmptyDict == [k \in {} |-> {}]

DictSet(d, k, v) == [x \in (DOMAIN d) \cup {k} |-> IF x = k THEN v ELSE d[x]]

\* collections.defaultdict(dict).__getitem__: a missing key is inserted with
\* an empty dict.
DefaultGet(d, k) == IF k \in DOMAIN d THEN d ELSE DictSet(d, k, EmptyDict)

\* ------------------------------------------------------------------------
\* Optional values: an unassigned local, a missing file.

None == [none |-> TRUE]

Some(v) == [none |-> FALSE, val |-> v]

\* ------------------------------------------------------------------------
\* create_bfac_dict, one line of the annotation file at a time.

\* A loader that keeps the first value of a (chain, sequence) pair.
store_bfac_keep_first(d, chain_id, seq_id, bfac) ==
    LET d1 == DefaultGet(d, chain_id)
    IN  IF seq_id \in DOMAIN d1[chain_id] THEN d1
        ELSE DictSet(d1, chain_id, DictSet(d1[chain_id], seq_id, bfac))

\* bfac_dict[chain_id][seq_id] = bfac on a defaultdict(dict)
store_bfac(d, chain_id, seq_id, bfac) ==
    LET d1 == DefaultGet(d, chain_id)
    IN  DictSet(d1, chain_id, DictSet(d1[chain_id], seq_id, bfac))

\* A loader that skips the lines it cannot parse instead of failing.
load_line_skip_malformed(d, line) ==
    LET toks == split(rstrip(line))
    IN  IF Len(toks) < 3 \/ ~ParseFloat(toks[3]).ok
        THEN [ok |-> TRUE, error |-> "", bfac_dict |-> d]
        ELSE [ok |-> TRUE, error |-> "",
              bfac_dict |-> DictSet(DefaultGet(d, toks[1]), toks[1],
                                    DictSet(DefaultGet(d, toks[1])[toks[1]], toks[2],
                                            ParseFloat(toks[3]).val))]

\* The body of the loop for one line of the file: blank lines are filtered
\* out, the others are split and stored.  error names the exception raised.
load_line(d, line) ==
    LET s == rstrip(line)
        toks == split(s)
    IN  IF s = <<>> THEN [ok |-> TRUE, error |-> "", bfac_dict |-> d]
        ELSE IF Len(toks) < 3 THEN [ok |-> FALSE, error |-> "IndexError", bfac_dict |-> d]
        ELSE IF ~ParseFloat(toks[3]).ok
             THEN [ok |-> FALSE, error |-> "ValueError", bfac_dict |-> d]
        ELSE [ok |-> TRUE, error |-> "",
              bfac_dict |-> store_bfac(d, toks[1], toks[2], ParseFloat(toks[3]).val)]

\* ------------------------------------------------------------------------
\* insert_bfac_into_pdb

ATOM == <<"A", "T", "O", "M", " ", " ">>

HETATM == <<"H", "E", "T", "A", "T", "M">>

\* A record test that compares the record name without its padding.
is_atom_line_unpadded(line) == Slice(line, 0, 4) = <<"A", "T", "O", "M">>

is_atom_line(line) == Slice(line, 0, RecLen) = ATOM

is_hetatm_line(line) == Slice(line, 0, RecLen) = HETATM

\* A test that indexes the defaultdict without asking for the chain first:
\* seq_id in bfac_dict[chain_id], which inserts a missing chain.
bfac_provided_by_index(d, chain_id, seq_id) ==
    [provided |-> seq_id \in DOMAIN DefaultGet(d, chain_id)[chain_id],
     bfac_dict |-> DefaultGet(d, chain_id)]

\* chain_id in bfac_dict and seq_id in bfac_dict[chain_id]; bfac_dict is the
\* dictionary as the test leaves it.
bfac_provided(d, chain_id, seq_id) ==
    [provided |-> chain_id \in DOMAIN d /\ seq_id \in DOMAIN d[chain_id],
     bfac_dict |-> d]

\* "{prefix}{bfac:6.2f}{suffix}".format(prefix=line[:60], bfac=bfac, suffix=line[66:])
splice(line, bfac) ==
    SliceTo(line, BfacStart) \o FormatBfac(bfac) \o SliceFrom(line, BfacEnd)

\* The body of the loop for one line: the line appended to new_pdb and the
\* dictionary afterwards.
rewrite_line(line, d, default_value) ==
    IF is_atom_line(line)
    THEN LET chain_id == strip(Slice(line, ChainStart, ChainEnd))
             seq_id == strip(Slice(line, SeqStart, SeqEnd))
             look == bfac_provided(d, chain_id, seq_id)
             bfac == IF look.provided THEN look.bfac_dict[chain_id][seq_id]
                     ELSE default_value
         IN  [line |-> splice(line, bfac), bfac_dict |-> look.bfac_dict]
    ELSE IF is_hetatm_line(line)
         THEN [line |-> splice(line, default_value), bfac_dict |-> d]
         ELSE [line |-> line, bfac_dict |-> d]

RECURSIVE insert_loop(_, _, _, _, _)
insert_loop(pdb_lines, i, d, default_value, acc) ==
    IF i > Len(pdb_lines) THEN [new_pdb |-> acc, bfac_dict |-> d]
    ELSE LET r == rewrite_line(pdb_lines[i], d, default_value)
         IN  insert_loop(pdb_lines, i + 1, r.bfac_dict, default_value,
                         Append(acc, r.line))

\* The list returned, and the dictionary argument as the call leaves it.
insert_bfac_into_pdb(pdb_lines, d, default_value) ==
    insert_loop(pdb_lines, 1, d, default_value, <<>>)

\* ------------------------------------------------------------------------
\* The inputs explored: command lines, annotation files, PDB files.

Rep(c, n) == [i \in 1..n |-> c]

RECURSIVE SeqsUpTo(_, _)
\* The sequences over S of length at most n.
SeqsUpTo(S, n) ==
    IF n = 0 THEN {<<>>}
    ELSE LET shorter == SeqsUpTo(S, n - 1)
         IN  shorter \cup {Append(q, x) : q \in shorter, x \in S}

\* Command lines: whether -p, -b and -o are all given, and the argument of
\* -d when it is given.
ArgvSet ==
    {[complete |-> FALSE, has_d |-> FALSE, d |-> <<>>],
     [complete |-> TRUE, has_d |-> FALSE, d |-> <<>>],
     [complete |-> TRUE, has_d |-> TRUE, d |-> <<"-", "1", "0", "0">>],
     [complete |-> TRUE, has_d |-> TRUE, d |-> <<"x">>]}

\* Lines of the annotation file.
BLineSet ==
    {<<"A", " ", "5", " ", "4", "2", ".", "1", "0", "\n">>,
     <<" ", "A", "\t", "5", " ", "2", ".", "1", "2", "5", " ", "#", " ", "\n">>,
     <<"B", " ", "1", "2", " ", "1", "0", "0", "0", "\n">>,
     <<" ", "\t", "\n">>,
     <<"A", " ", "5", "\n">>,
     <<"A", " ", "6", " ", "x", "\n">>}

OldField == <<" ", " ", "0", ".", "0", "0">>

LineTail == <<" ", "N", "\n">>

\* A line laid out in the columns the rewriter reads: record name, chain id
\* field, sequence id field, value field, and what follows it.
PdbLine(rec, chain, seq) ==
    rec \o Rep("x", ChainStart - RecLen) \o chain \o Rep("y", SeqStart - ChainEnd)
        \o seq \o Rep("z", BfacStart - SeqEnd) \o OldField \o LineTail

\* Lines of the PDB file: full lines, and lines that end before the value
\* field.
PdbLineSet ==
    {PdbLine(ATOM, <<" ", "A">>, <<" ", " ", "5">>),
     PdbLine(ATOM, <<"B", " ">>, <<"1", "2", " ">>),
     PdbLine(ATOM, <<" ", " ">>, <<" ", " ", "5">>),
     PdbLine(HETATM, <<" ", "A">>, <<" ", " ", "5">>),
     PdbLine(<<"A", "T", "O", "M", "X", " ">>, <<" ", "A">>, <<" ", " ", "5">>),
     PdbLine(<<"R", "E", "M", "A", "R", "K">>, <<" ", "A">>, <<" ", " ", "5">>),
     <<"A", "T", "O", "M", "\n">>,
     SliceTo(PdbLine(ATOM, <<" ", "A">>, <<" ", " ", "5">>), 30) \o <<"\n">>}

OldOutput == <<"o", "l", "d", "\n">>

\* ------------------------------------------------------------------------
\* The state of one run of the script.

VARIABLES
    argv,           \* the command line
    bfile,          \* the annotation file: None when missing, else its lines
    pdbfile,        \* the PDB file: None when missing, else its lines
    outfile,        \* the output path: None when absent, else its content
    pc,             \* the statement of the script that runs next
    failure,        \* the exception that ended the run, "" when none
    args,           \* the namespace parse_args returned
    bfac_dict,      \* create_bfac_dict: the dictionary being built
    idx,            \* create_bfac_dict: the next line of the file
    dictionary,     \* main: the dictionary create_bfac_dict returned
    pdb,            \* main: the lines read from the PDB file
    first_call,     \* main: the value of the call whose result is dropped
    new_pdb_lines,  \* main: the list the second call returned
    new_pdb         \* main: the joined text

vars == <<argv, bfile, pdbfile, outfile, pc, failure, args, bfac_dict, idx,
          dictionary, pdb, first_call, new_pdb_lines, new_pdb>>

env == <<argv, bfile, pdbfile>>

Init ==
    /\ argv \in ArgvSet
    /\ bfile \in {None} \cup {Some(f) : f \in SeqsUpTo(BLineSet, MaxBLines)}
    /\ pdbfile \in {None} \cup {Some(f) : f \in SeqsUpTo(PdbLineSet, MaxPdbLines)}
    /\ outfile \in {None, Some(OldOutput)}
    /\ pc = "parse_args"
    /\ failure = ""
    /\ args = None
    /\ bfac_dict = EmptyDict
    /\ idx = 1
    /\ dictionary = None
    /\ pdb = None
    /\ first_call = None
    /\ new_pdb_lines = None
    /\ new_pdb = None

\* A parser whose -o option has type=argparse.FileType("w"): the output is
\* opened while the command line is parsed.
ParseArgsOpeningOutput ==
    /\ pc = "parse_args"
    /\ LET given == ParseFloat(IF argv.has_d THEN argv.d ELSE <<"N", "a", "N">>)
       IN  IF argv.complete /\ given.ok
           THEN /\ args' = Some([default_value |-> given.val])
                /\ pc' = "open_bfac"
                /\ failure' = failure
                /\ outfile' = Some(<<>>)
           ELSE /\ args' = args
                /\ pc' = "failed"
                /\ failure' = "SystemExit"
                /\ outfile' = outfile
    /\ UNCHANGED <<env, bfac_dict, idx, dictionary, pdb, first_call,
                   new_pdb_lines, new_pdb>>

\* parser.parse_args(): a missing required option or a -d argument that is
\* no float ends the run; a string default goes through type=float too.
ParseArgs ==
    /\ pc = "parse_args"
    /\ LET given == ParseFloat(IF argv.has_d THEN argv.d ELSE <<"N", "a", "N">>)
       IN  IF argv.complete /\ given.ok
           THEN /\ args' = Some([default_value |-> given.val])
                /\ pc' = "open_bfac"
                /\ failure' = failure
           ELSE /\ args' = args
                /\ pc' = "failed"
                /\ failure' = "SystemExit"
    /\ UNCHANGED <<env, outfile, bfac_dict, idx, dictionary, pdb, first_call,
                   new_pdb_lines, new_pdb>>

\* create_bfac_dict: open(bfactor_file_name)
OpenBfac ==
    /\ pc = "open_bfac"
    /\ IF bfile = None
       THEN /\ pc' = "failed"
            /\ failure' = "FileNotFoundError"
            /\ UNCHANGED <<bfac_dict, idx>>
       ELSE /\ pc' = "load"
            /\ failure' = failure
            /\ bfac_dict' = EmptyDict
            /\ idx' = 1
    /\ UNCHANGED <<env, outfile, args, dictionary, pdb, first_call,
                   new_pdb_lines, new_pdb>>

\* create_bfac_dict: one turn of the loop over the lines of the file.
LoadLine ==
    /\ pc = "load"
    /\ idx <= Len(bfile.val)
    /\ LET r == load_line(bfac_dict, bfile.val[idx])
       IN  IF r.ok
           THEN /\ bfac_dict' = r.bfac_dict
                /\ idx' = idx + 1
                /\ UNCHANGED <<pc, failure>>
           ELSE /\ pc' = "failed"
                /\ failure' = r.error
                /\ UNCHANGED <<bfac_dict, idx>>
    /\ UNCHANGED <<env, outfile, args, dictionary, pdb, first_call,
                   new_pdb_lines, new_pdb>>

\* create_bfac_dict returns and main binds the result.
LoadReturn ==
    /\ pc = "load"
    /\ idx > Len(bfile.val)
    /\ dictionary' = Some(bfac_dict)
    /\ pc' = "read_pdb"
    /\ UNCHANGED <<env, outfile, failure, args, bfac_dict, idx, pdb, first_call,
                   new_pdb_lines, new_pdb>>

\* main: open(args.pdb_file) and readlines()
ReadPdb ==
    /\ pc = "read_pdb"
    /\ IF pdbfile = None
       THEN /\ pc' = "failed"
            /\ failure' = "FileNotFoundError"
            /\ pdb' = pdb
       ELSE /\ pc' = "rewrite1"
            /\ failure' = failure
            /\ pdb' = Some(pdbfile.val)
    /\ UNCHANGED <<env, outfile, args, bfac_dict, idx, dictionary, first_call,
                   new_pdb_lines, new_pdb>>

\* main: the first call of insert_bfac_into_pdb, whose value is dropped.
Rewrite1 ==
    /\ pc = "rewrite1"
    /\ LET r == insert_bfac_into_pdb(pdb.val, dictionary.val, args.val.default_value)
       IN  /\ first_call' = Some(r.new_pdb)
           /\ dictionary' = Some(r.bfac_dict)
    /\ pc' = "rewrite2"
    /\ UNCHANGED <<env, outfile, failure, args, bfac_dict, idx, pdb,
                   new_pdb_lines, new_pdb>>

\* main: the second call, joined into the text to write.
Rewrite2 ==
    /\ pc = "rewrite2"
    /\ LET r == insert_bfac_into_pdb(pdb.val, dictionary.val, args.val.default_value)
       IN  /\ new_pdb_lines' = Some(r.new_pdb)
           /\ new_pdb' = Some(join(r.new_pdb))
           /\ dictionary' = Some(r.bfac_dict)
    /\ pc' = "open_out"
    /\ UNCHANGED <<env, outfile, failure, args, bfac_dict, idx, pdb, first_call>>

\* main: open(args.output_file, "w") creates or truncates the file, or fails
\* and leaves the path as it was.
OpenOutput ==
    /\ pc = "open_out"
    /\ \/ /\ outfile' = Some(<<>>)
          /\ pc' = "write_out"
          /\ failure' = failure
       \/ /\ outfile' = outfile
          /\ pc' = "failed"
          /\ failure' = "OSError"
    /\ UNCHANGED <<env, args, bfac_dict, idx, dictionary, pdb, first_call,
                   new_pdb_lines, new_pdb>>

\* main: output_file.write(new_pdb) and the close at the end of the with
\* block; a failed write leaves what was written before it.
WriteOutput ==
    /\ pc = "write_out"
    /\ \/ /\ outfile' = Some(new_pdb.val)
          /\ pc' = "done"
          /\ failure' = failure
       \/ /\ \E n \in {0, Len(new_pdb.val) \div 2} :
                outfile' = Some(SliceTo(new_pdb.val, n))
          /\ pc' = "failed"
          /\ failure' = "OSError"
    /\ UNCHANGED <<env, args, bfac_dict, idx, dictionary, pdb, first_call,
                   new_pdb_lines, new_pdb>>

Next ==
    \/ ParseArgs
    \/ OpenBfac
    \/ LoadLine
    \/ LoadReturn
    \/ ReadPdb
    \/ Rewrite1
    \/ Rewrite2
    \/ OpenOutput
    \/ WriteOutput

Spec == Init /\ [][Next]_vars

\* ------------------------------------------------------------------------
\* Vocabulary of the properties.

\* The run has rewritten the PDB lines (the second call has returned).
Rewritten == new_pdb_lines # None

default_value == args.val.default_value

\* The annotation table as create_bfac_dict returned it.
Table == bfac_dict

ChainOf(line) == strip(Slice(line, ChainStart, ChainEnd))

SeqOf(line) == strip(Slice(line, SeqStart, SeqEnd))

InTable(line) ==
    /\ ChainOf(line) \in DOMAIN Table
    /\ SeqOf(line) \in DOMAIN Table[ChainOf(line)]

AtomPrefix(line) == SliceTo(line, RecLen) = <<"A", "T", "O", "M", " ", " ">>

HetatmPrefix(line) == SliceTo(line, RecLen) = <<"H", "E", "T", "A", "T", "M">>

\* The value field of a line: the six characters at offsets 60..65.
ValueField(line) == Slice(line, BfacStart, BfacEnd)

\* C1: every ATOM line whose chain id and sequence id are keys of the table
\* has, in the output, a value field equal to the table value formatted
\* 6-wide with 2 decimals.
C1_AtomFieldIsTableValue ==
    Rewritten =>
        \A i \in 1..Len(pdb.val) :
            AtomPrefix(pdb.val[i]) /\ InTable(pdb.val[i]) =>
                ValueField(new_pdb_lines.val[i])
                    = FormatBfac(Table[ChainOf(pdb.val[i])][SeqOf(pdb.val[i])])

\* C2: every ATOM line whose chain id / sequence id pair is not in the table
\* has, in the output, a value field equal to the formatted default; without
\* -d the default is NaN.
C2_AtomFieldIsDefault ==
    /\ args # None /\ ~argv.has_d => default_value = NaN
    /\ Rewritten =>
        \A i \in 1..Len(pdb.val) :
            AtomPrefix(pdb.val[i]) /\ ~InTable(pdb.val[i]) =>
                ValueField(new_pdb_lines.val[i]) = FormatBfac(default_value)

\* C3: every HETATM line has, in the output, a value field equal to the
\* formatted default, and its output line is the one an empty table gives.
C3_HetatmFieldIsDefault ==
    Rewritten =>
        \A i \in 1..Len(pdb.val) :
            HetatmPrefix(pdb.val[i]) =>
                /\ ValueField(new_pdb_lines.val[i]) = FormatBfac(default_value)
                /\ new_pdb_lines.val[i]
                       = rewrite_line(pdb.val[i], EmptyDict, default_value).line

\* C4: every line whose first six characters are neither "ATOM  " nor
\* "HETATM" is in the output unchanged, at the same position.
C4_OtherLinesUnchanged ==
    Rewritten =>
        /\ Len(new_pdb_lines.val) = Len(pdb.val)
        /\ \A i \in 1..Len(pdb.val) :
               ~AtomPrefix(pdb.val[i]) /\ ~HetatmPrefix(pdb.val[i]) =>
                   new_pdb_lines.val[i] = pdb.val[i]

\* A line that begins with ATOM without being an ATOM record, a table that
\* has its chain and sequence ids, and the line is in the output as it was.
C4_Witness ==
    /\ Rewritten
    /\ \E i \in 1..Len(pdb.val) :
           /\ SliceTo(pdb.val[i], 4) = <<"A", "T", "O", "M">>
           /\ ~AtomPrefix(pdb.val[i])
           /\ Len(pdb.val[i]) > BfacEnd
           /\ InTable(pdb.val[i])
           /\ new_pdb_lines.val[i] = pdb.val[i]

\* C5: the output line of every ATOM or HETATM line has the length of the
\* input line and its characters everywhere outside offsets 60..65.
C5_RestOfLinePreserved ==
    Rewritten =>
        \A i \in 1..Len(pdb.val) :
            AtomPrefix(pdb.val[i]) \/ HetatmPrefix(pdb.val[i]) =>
                /\ Len(new_pdb_lines.val[i]) = Len(pdb.val[i])
                /\ \A k \in 1..Len(pdb.val[i]) :
                       k <= BfacStart \/ k > BfacEnd =>
                           new_pdb_lines.val[i][k] = pdb.val[i][k]

\* C6: rewriting the output again, with the same table and default, gives
\* the output back.
C6_Idempotent ==
    Rewritten =>
        insert_bfac_into_pdb(new_pdb_lines.val, Table, default_value).new_pdb
            = new_pdb_lines.val

\* ------------------------------------------------------------------------
\* Vocabulary of the properties of the annotation loader.

IsBlank(line) == \A k \in 1..Len(line) : line[k] \in Whitespace

NonBlank(f) == {i \in 1..Len(f) : ~IsBlank(f[i])}

Tokens(line) == split(line)

TokensOk(line) ==
    LET t == Tokens(line) IN Len(t) >= 3 /\ ParseFloat(t[3]).ok

WellFormed(f) == \A i \in NonBlank(f) : TokensOk(f[i])

PairOf(line) == <<Tokens(line)[1], Tokens(line)[2]>>

LastLineOf(f, p) ==
    CHOOSE i \in NonBlank(f) :
        PairOf(f[i]) = p /\ \A j \in NonBlank(f) : PairOf(f[j]) = p => j <= i

LoadFailures == {"IndexError", "ValueError"}

\* C7: on a well-formed annotation file create_bfac_dict does not fail, and
\* the table it returns has exactly the (chain, sequence) pairs of the
\* non-blank lines, each with the value of the last line that names it, and
\* no chain with an empty mapping.
C7_TableIsLastOccurrence ==
    /\ failure \in LoadFailures => ~WellFormed(bfile.val)
    /\ pc = "read_pdb" /\ WellFormed(bfile.val) =>
           LET f == bfile.val
               d == dictionary.val
           IN  /\ UNION {{<<c, q>> : q \in DOMAIN d[c]} : c \in DOMAIN d}
                      = {PairOf(f[i]) : i \in NonBlank(f)}
               /\ \A c \in DOMAIN d : DOMAIN d[c] # {}
               /\ \A i \in NonBlank(f) :
                      d[PairOf(f[i])[1]][PairOf(f[i])[2]]
                          = ParseFloat(Tokens(f[LastLineOf(f, PairOf(f[i]))])[3]).val

\* The table is returned for a file that names one pair twice, with
\* different values.
C7_Witness ==
    /\ pc = "read_pdb"
    /\ \E i, j \in NonBlank(bfile.val) :
           /\ i < j
           /\ PairOf(bfile.val[i]) = PairOf(bfile.val[j])
           /\ Tokens(bfile.val[i])[3] # Tokens(bfile.val[j])[3]

\* C8: when a non-blank line of the annotation file has fewer than three
\* tokens or a third token that is no number, the load fails with the
\* exception of that line and main gets no table: it binds no dictionary,
\* reads no PDB file and rewrites nothing.
C8_MalformedAbortsLoad ==
    bfile # None /\ ~WellFormed(bfile.val) =>
        /\ dictionary = None
        /\ pdb = None
        /\ first_call = None
        /\ new_pdb_lines = None
        /\ pc \in {"parse_args", "open_bfac", "load", "failed"}
        /\ pc = "failed" /\ args # None => failure \in LoadFailures

\* The load has failed on a malformed line after valid lines had been
\* stored, and main has no dictionary.
C8_Witness ==
    /\ pc = "failed"
    /\ failure \in LoadFailures
    /\ bfac_dict # EmptyDict
    /\ dictionary = None

\* C9: the calls of insert_bfac_into_pdb leave the table and the input lines
\* as they were, and the two calls of main return the same list.
C9_ArgumentsUntouched ==
    /\ first_call # None => dictionary.val = Table /\ pdb.val = pdbfile.val
    /\ Rewritten => new_pdb_lines = first_call

\* Both calls have returned for an ATOM line whose chain id is not a key of
\* a table that has other keys.
C9_Witness ==
    /\ Rewritten
    /\ Table # EmptyDict
    /\ \E i \in 1..Len(pdb.val) :
           AtomPrefix(pdb.val[i]) /\ ChainOf(pdb.val[i]) \notin DOMAIN Table

Untouched == {None, Some(OldOutput)}

\* C10: the output path changes only at the open and the write of the
\* output, which come after the command line was parsed, the table loaded,
\* the PDB file read and the lines rewritten; a run that failed with another
\* exception than that of the open or the write leaves the path as it was.
C10_OutputOpenedLast ==
    /\ [][pc \notin {"open_out", "write_out"} => outfile' = outfile]_vars
    /\ [](pc \in {"open_out", "write_out", "done"} =>
              /\ args # None
              /\ dictionary # None
              /\ pdb # None
              /\ first_call # None
              /\ new_pdb # None)
    /\ [](pc = "failed" /\ failure # "OSError" => outfile \in Untouched)

\* The run has failed on a malformed annotation line and the output file
\* that existed before still has its content.
C10_Witness ==
    /\ pc = "failed"
    /\ failure \in LoadFailures
    /\ outfile = Some(OldOutput)

====
